---- MODULE Spec2Model ----
(***************************************************************************)
(* State-machine model of RoboWatchGUI (src/PYTHON/robowatch/main.py):     *)
(* the view-lock flags, point picking, the three parallel per-point lists, *)
(* the path-id counter, JSON save/load and the torch simulation.           *)
(*                                                                         *)
(* Every action is one event handler of the class, run to completion,      *)
(* together with the helpers it calls.  Handlers are invoked as the        *)
(* operations of the class: the model does not restrict an event to the    *)
(* moments at which its button happens to be enabled.                      *)
(*                                                                         *)
(* Coordinates are integer triples <<x, y, z>>.  torch_distance is kept in *)
(* tenths of a millimetre, the unit of the slider (value / 10.0 mm).       *)
(* Time is counted in ticks of 50 ms and only the time elapsed since       *)
(* last_pick_time is kept, saturated at ElapsedCap; since_accepted_pick    *)
(* is the time elapsed since the last pick that was appended to the store. *)
(*                                                                         *)
(* The camera is the triple (position, focal_point, up) of plotter.camera; *)
(* the mesh is centred at the origin with bounds -1..1 on every axis, and  *)
(* the 90-degree rotation about Z is exact on integer coordinates.         *)
(*                                                                         *)
(* Specifications share Init.  Spec runs the handlers of the point store,  *)
(* picking, the simulation, loading and the view locks.  ViewSpec runs the *)
(* handlers that act on the camera: loading, the view locks, the two       *)
(* rotations, a trackball drag and the picking toggle.  The rotations and  *)
(* the drag write only the camera, and no handler of the store reads it,   *)
(* so the two machines do not interfere.  LoadSpec runs _load_stl over     *)
(* every kind of .json file, among them files whose numbers are outside    *)
(* what save_stl_file writes, with the handlers that change what a load    *)
(* finds.  PickSpec runs picking on a mesh loaded without points, with the *)
(* handlers that start a new path.                                         *)
(*                                                                         *)
(* RobotSpec is the machine of RobotPath                                   *)
(* (src/PYTHON/zigzag/robot_path.py): one instance and the calls of        *)
(* calculate_path on it.  Its arithmetic is exact: the arguments are       *)
(* integers chosen so that every coordinate the method computes is an      *)
(* integer.  A ValueError is kept as the set of parameter names its        *)
(* message quotes.  KeepSpec adds a caller that holds on to a returned     *)
(* list across later calls.                                                *)
(*                                                                         *)
(* FloatSpec runs the loops of calculate_path one iteration at a time with *)
(* floating-point arithmetic: round to nearest, ties to even, at a         *)
(* significand of MantissaBits bits, on calls along the x axis from the    *)
(* origin.                                                                 *)
(***************************************************************************)
EXTENDS Integers, Sequences, FiniteSets, TLC

\* ---------------------------------------------------------------- bounds
\* bits of the significand of a floating-point number in the float machine
\* (a Python float has 53)
MantissaBits == 3

\* the largest binary exponent of a floating-point number above the
\* significand
MaxExponent == 6

\* at most this many points are kept of a list that grows without end
MaxEmitted == 24

\* the distance from start to end is searched up to this length
MaxDistance == 100

\* at most this many entries in point_path_id (it grows with every pick)
MaxPoints == 2
\* start-path is not taken beyond this value of the counter
MaxPathId == 2
\* elapsed time since the last pick is saturated here (ticks)
ElapsedCap == 2

\* ------------------------------------------------------ program constants
\* debounce window 0.1 s, in ticks of 50 ms
DebounceTicks == 2
\* "time.time() - 1": one second in the past, in ticks of 50 ms
PastTicks == 20
\* torch distance after construction: 1.0 mm, in tenths
DefaultTorchDistance == 10
\* slider range 0 .. 100 (0.0 .. 10.0 mm)
TorchSliderMin == 0
TorchSliderMax == 100

\* Python's None for selected_path_id (path ids are never negative)
None == -1

NoHit == <<>>

VARIABLES
    plotter,                  \* TRUE iff self.plotter is not None
    current_mesh,             \* TRUE iff self.current_mesh is not None
    picked_points,            \* self.picked_points
    point_path_id,            \* self.point_path_id
    point_normals,            \* self.point_normals
    current_path_id,          \* self.current_path_id
    point_picking_mode,       \* self.point_picking_mode
    top_view_mode,            \* self.top_view_mode
    side_view_mode,           \* self.side_view_mode
    torch_distance,           \* self.torch_distance, tenths of a mm
    simulation_mode,          \* self.simulation_mode
    selected_path_id,         \* self.selected_path_id (None or a path id)
    current_point_index,      \* self.current_point_index
    simulation_path_dropdown, \* path ids listed in the dropdown, in order
    since_last_pick,          \* time.time() - self.last_pick_time, ticks
    since_accepted_pick,      \* time since the last pick that appended a
                              \* point, ticks (ElapsedCap: long ago or never)
    camera,                   \* self.plotter.camera: position, focal_point, up
    saved_camera_state,       \* self.saved_camera_state
    saved_side_camera_state,  \* self.saved_side_camera_state
    interaction_frozen,       \* TRUE iff the interactor style is vtkInteractorStyleNone
    path_points,              \* RobotPath: self.points
    args,                     \* RobotPath: the arguments of the last call
    returned,                 \* RobotPath: what the last call returned
    raised,                   \* RobotPath: the parameters named by the
                              \* ValueError of the last call
    kept_args,                \* the arguments of the call whose returned
                              \* list the caller still holds (or NoCall)
    kept_list,                \* that list object, as it is now
    kept_original,            \* that list, as it was when it was returned
    kept_is_points,           \* TRUE iff that list object is self.points
    fl_args,                  \* float machine: type, total, step, back of
                              \* the call being run (or NoCall)
    fl_pc,                    \* float machine: "idle", "loop" or "done"
    fl_current,               \* float machine: current_distance
    fl_points                 \* float machine: self.points, as distances
                              \* from start along the line

vars == <<plotter, current_mesh, picked_points, point_path_id, point_normals,
          current_path_id, point_picking_mode, top_view_mode, side_view_mode,
          torch_distance, simulation_mode, selected_path_id,
          current_point_index, simulation_path_dropdown, since_last_pick,
          since_accepted_pick, camera, saved_camera_state,
          saved_side_camera_state, interaction_frozen,
          path_points, args, returned, raised,
          kept_args, kept_list, kept_original, kept_is_points,
          fl_args, fl_pc, fl_current, fl_points>>

keptVars == <<kept_args, kept_list, kept_original, kept_is_points>>
floatVars == <<fl_args, fl_pc, fl_current, fl_points>>
callVars == <<path_points, args, returned, raised, keptVars>>
robotVars == <<callVars, floatVars>>
guiVars == <<plotter, current_mesh, picked_points, point_path_id,
             point_normals, current_path_id, point_picking_mode,
             top_view_mode, side_view_mode, torch_distance, simulation_mode,
             selected_path_id, current_point_index, simulation_path_dropdown,
             since_last_pick, since_accepted_pick, camera,
             saved_camera_state, saved_side_camera_state,
             interaction_frozen>>
cameraVars == <<camera, saved_camera_state, saved_side_camera_state,
                interaction_frozen>>
storeVars == <<picked_points, point_path_id, point_normals>>
viewVars == <<top_view_mode, side_view_mode>>
simVars == <<simulation_mode, selected_path_id, current_point_index,
             simulation_path_dropdown>>

\* ------------------------------------------------------------ arithmetic
Min(a, b) == IF a < b THEN a ELSE b

Abs(a) == IF a < 0 THEN -a ELSE a

\* ------------------------------------------------------------------ mesh
\* The surface points a click can hit, with the vertex normal the mesh
\* stores there (not normalised; <<0,0,0>> is a degenerate vertex).
MeshVertexNormal(p) ==
    CASE p = <<1, 0, 0>> -> <<2, 0, 0>>
      [] p = <<0, 0, 1>> -> <<0, 0, 0>>
      [] OTHER -> <<0, 0, 3>>

SurfacePoints == {<<1, 0, 0>>, <<0, 0, 1>>}

\* np.linalg.norm for the axis-parallel vectors of this mesh
NormMagnitude(v) == Abs(v[1]) + Abs(v[2]) + Abs(v[3])

\* _calculate_surface_normal: vertex normal divided by its magnitude,
\* (0, 0, 1) when the magnitude is zero
CalculateSurfaceNormal(p) ==
    LET normal == MeshVertexNormal(p)
        norm_magnitude == NormMagnitude(normal)
    IN  IF norm_magnitude > 0
        THEN <<normal[1] \div norm_magnitude,
               normal[2] \div norm_magnitude,
               normal[3] \div norm_magnitude>>
        ELSE <<0, 0, 1>>

\* ---------------------------------------------------------------- camera
\* current_mesh.center and current_mesh.bounds of the mesh shown
MeshCenter == <<0, 0, 0>>

MeshBounds == <<-1, 1, -1, 1, -1, 1>>

Max(a, b) == IF a > b THEN a ELSE b

\* display_mesh: "mesh_size = max(bounds[1] - bounds[0], ...)" and
\* "camera_distance = mesh_size * 2.0"
CameraDistance ==
    2 * Max(MeshBounds[2] - MeshBounds[1],
            Max(MeshBounds[4] - MeshBounds[3], MeshBounds[6] - MeshBounds[5]))

\* display_mesh: the pose saved as the top view state
TopViewState ==
    [position |-> <<MeshCenter[1], MeshCenter[2], MeshCenter[3] + CameraDistance>>,
     focal_point |-> MeshCenter,
     up |-> <<0, 1, 0>>]

\* display_mesh: the pose saved as the side view state
SideViewState ==
    [position |-> <<MeshCenter[1] + CameraDistance, MeshCenter[2], MeshCenter[3]>>,
     focal_point |-> MeshCenter,
     up |-> <<0, 0, 1>>]

\* no plotter, so no camera; no saved state
NoCamera == [absent |-> TRUE]

\* a pose the user reaches by dragging with the trackball style
DraggedPose ==
    [position |-> <<3, 2, 1>>, focal_point |-> <<0, 1, 0>>, up |-> <<1, 0, 1>>]

\* mutant: the new x component is used to compute the new y component
RotateZ_InPlace(v, dir) == <<-(v[2] * dir), (-(v[2] * dir)) * dir, v[3]>>

\* rotation about the Z axis by 90 degrees: cos = 0, sin = dir, with
\* dir = -1 for clockwise (np.radians(-90)) and 1 for counter-clockwise
RotateZ(v, dir) == <<-(v[2] * dir), v[1] * dir, v[3]>>

\* ------------------------------------------------------- list utilities
\* sum(1 for pid in ids if pid == path_id)
CountPath(ids, path_id) ==
    Cardinality({i \in 1..Len(ids) : ids[i] = path_id})

\* [i for i, pid in enumerate(ids) if pid == path_id], 1-based
PathPointIndices(ids, path_id) ==
    LET F[i \in 0..Len(ids)] ==
            IF i = 0 THEN <<>>
            ELSE IF ids[i] = path_id THEN Append(F[i - 1], i) ELSE F[i - 1]
    IN  F[Len(ids)]

\* sorted(set(ids))
SortedSet(ids) ==
    LET S == {ids[i] : i \in 1..Len(ids)}
        F[T \in SUBSET S] ==
            IF T = {} THEN <<>>
            ELSE LET m == CHOOSE x \in T : \A y \in T : x <= y
                 IN  <<m>> \o F[T \ {m}]
    IN  F[S]

DropLast(s) == SubSeq(s, 1, Len(s) - 1)

\* ------------------------------------------------------------ JSON file
\* "normal = self.point_normals[i] if i < len(self.point_normals) else [0, 0, 1]"
NormalOrDefault(normals, i) ==
    IF i <= Len(normals) THEN normals[i] ELSE <<0, 0, 1>>

\* one entry of 'all_points' as save_stl_file writes it (index is 0-based)
AllPointsEntry(points, ids, normals, i) ==
    [index |-> i - 1,
     path_id |-> ids[i],
     x |-> points[i][1], y |-> points[i][2], z |-> points[i][3],
     normal_x |-> NormalOrDefault(normals, i)[1],
     normal_y |-> NormalOrDefault(normals, i)[2],
     normal_z |-> NormalOrDefault(normals, i)[3]]

\* one entry of a path's 'points' in the grouped view
PathPointEntry(points, normals, i) ==
    [x |-> points[i][1], y |-> points[i][2], z |-> points[i][3],
     normal_x |-> NormalOrDefault(normals, i)[1],
     normal_y |-> NormalOrDefault(normals, i)[2],
     normal_z |-> NormalOrDefault(normals, i)[3]]

\* the grouped 'paths' view: for path_id in 1..current_path_id, the points
\* whose path id is path_id, paths without points left out
PathsView(points, ids, normals, cur) ==
    LET PointsOf(path_id) ==
            LET F[i \in 0..Len(points)] ==
                    IF i = 0 THEN <<>>
                    ELSE IF ids[i] = path_id
                         THEN Append(F[i - 1], PathPointEntry(points, normals, i))
                         ELSE F[i - 1]
            IN  F[Len(points)]
        G[path_id \in 0..cur] ==
            IF path_id = 0 THEN <<>>
            ELSE IF PointsOf(path_id) # <<>>
                 THEN Append(G[path_id - 1],
                             [path_id |-> path_id, points |-> PointsOf(path_id)])
                 ELSE G[path_id - 1]
    IN  G[cur]

\* the structure save_stl_file dumps to the .json file
SaveJson(points, ids, normals, torch, cur) ==
    [paths |-> PathsView(points, ids, normals, cur),
     all_points |-> [i \in 1..Len(points) |->
                        AllPointsEntry(points, ids, normals, i)],
     torch_distance |-> torch]

\* mutant: a record without a normal gets the zero vector
LoadedNormal_NoDefault(point_data) ==
    IF "normal_x" \in DOMAIN point_data
    THEN <<point_data.normal_x, point_data.normal_y, point_data.normal_z>>
    ELSE <<0, 0, 0>>

\* mutant: the normal written in the file is not read
LoadedNormal_Default(point_data) == <<0, 0, 1>>

\* "if 'normal_x' in point_data ... else np.array([0, 0, 1])"
LoadedNormal(point_data) ==
    IF "normal_x" \in DOMAIN point_data
    THEN <<point_data.normal_x, point_data.normal_y, point_data.normal_z>>
    ELSE <<0, 0, 1>>

LoadedPoint(point_data) == <<point_data.x, point_data.y, point_data.z>>

\* mutant: the counter follows the path id read last, not the highest one
HighestPathId_Last(cur, path_id) == path_id

\* "if point_data['path_id'] > self.current_path_id: self.current_path_id = ..."
HighestPathId(cur, path_id) == IF path_id > cur THEN path_id ELSE cur

\* the store load_paths_from_json builds from the parsed file: the lists are
\* emptied and the counter zeroed, then 'all_points' is read in file order
LoadPathsFromJson(paths_data, old_torch) ==
    LET entries == IF "all_points" \in DOMAIN paths_data
                   THEN paths_data.all_points ELSE <<>>
        F[i \in 0..Len(entries)] ==
            IF i = 0
            THEN [picked_points |-> <<>>, point_path_id |-> <<>>,
                  point_normals |-> <<>>, current_path_id |-> 0]
            ELSE [picked_points |->
                      Append(F[i - 1].picked_points, LoadedPoint(entries[i])),
                  point_path_id |->
                      Append(F[i - 1].point_path_id, entries[i].path_id),
                  point_normals |->
                      Append(F[i - 1].point_normals, LoadedNormal(entries[i])),
                  current_path_id |->
                      HighestPathId(F[i - 1].current_path_id, entries[i].path_id)]
        store == F[Len(entries)]
    IN  [picked_points |-> store.picked_points,
         point_path_id |-> store.point_path_id,
         point_normals |-> store.point_normals,
         current_path_id |-> store.current_path_id,
         torch_distance |-> IF "torch_distance" \in DOMAIN paths_data
                            THEN paths_data.torch_distance ELSE old_torch]

\* the .json file save_stl_file would write in the current state
SavedFile ==
    SaveJson(picked_points, point_path_id, point_normals, torch_distance,
             current_path_id)

\* .json files written by other means: without points, with an empty point
\* list, and with records that carry no normal and paths out of order
FileNoPoints == [torch_distance |-> 0]

FileEmpty == [paths |-> <<>>, all_points |-> <<>>, torch_distance |-> 0]

FileNoNormals ==
    [all_points |->
        <<[index |-> 0, path_id |-> 2, x |-> 1, y |-> 0, z |-> 0],
          [index |-> 1, path_id |-> 1, x |-> 0, y |-> 0, z |-> 1,
           normal_x |-> 1, normal_y |-> 0, normal_z |-> 0]>>]

ExternalFiles == {FileNoPoints, FileEmpty, FileNoNormals}

\* .json files whose numbers are outside what save_stl_file writes;
\* load_paths_from_json reads 'torch_distance' and 'path_id' as they are
FileNegativeTorch == [all_points |-> <<>>, torch_distance |-> -5]

FileNegativePathId ==
    [all_points |->
        <<[index |-> 0, path_id |-> -2, x |-> 0, y |-> 1, z |-> 0]>>]

UncheckedFiles == {FileNegativeTorch, FileNegativePathId}

NoFile == [absent |-> TRUE]

\* ------------------------------------------------------------- RobotPath
\* RobotPath.calculate_path (src/PYTHON/zigzag/robot_path.py).  Lengths and
\* coordinates are integers of one unit, and the arguments are drawn from
\* sets for which every value the method computes is an integer: the
\* distance from start to end, ux * distance, uy * distance and the
\* perpendicular offset of width / 2.  The arithmetic is exact.
NoCall == [absent |-> TRUE]

\* no ValueError raised; a ValueError is kept as the set of the parameters
\* its message names
NoError == {}

\* nothing returned (a call that returns gives at least one point)
NoResult == <<>>

PatternTypes == {"straight", "backAndForth", "zigzag"}

\* the arguments of the calls
Starts == {<<10, -10>>}

Displacements == {<<0, 0>>, <<50, 0>>, <<0, -20>>, <<30, 40>>}

Steps == {-10, 0, 10, 20, 60}

Types == PatternTypes \cup {"spiral"}

Backs == {-5, 0, 5, 10}

Widths == {-10, 0, 10}

\* "math.sqrt(dx**2 + dy**2)"
TotalDistance(start, end) ==
    LET dx == end[1] - start[1]
        dy == end[2] - start[2]
    IN  CHOOSE t \in 0..MaxDistance : t * t = dx * dx + dy * dy

\* "(start[0] + ux * distance, start[1] + uy * distance)"
PointAt(start, end, distance) ==
    LET dx == end[1] - start[1]
        dy == end[2] - start[2]
        total_distance == TotalDistance(start, end)
    IN  <<start[1] + (dx * distance) \div total_distance,
          start[2] + (dy * distance) \div total_distance>>

\* "(x + perp_ux * (width / 2) * side, y + perp_uy * (width / 2) * side)"
\* with perp_ux = -uy and perp_uy = ux
OffsetPoint(start, end, base, width, side) ==
    LET dx == end[1] - start[1]
        dy == end[2] - start[2]
        total_distance == TotalDistance(start, end)
    IN  <<base[1] + ((-dy) * width * side) \div (2 * total_distance),
          base[2] + (dx * width * side) \div (2 * total_distance)>>

\* lines 61-65: "if back >= step: raise ValueError(f"Parameter 'back'
\* ({back}) must be smaller than 'step' ({step})")" and "if back < 0: raise
\* ValueError(f"Parameter 'back' ({back}) must be non-negative")"
BackRangeError(step, back) ==
    IF back >= step THEN {"back", "step"}
    ELSE IF back < 0 THEN {"back"}
    ELSE NoError

\* mutant: width is not checked against the type
ExclusiveError_BackOnly(type, back, width) ==
    IF type = "straight" /\ back # 0 THEN {"back"}
    ELSE IF type = "zigzag" /\ back # 0 THEN {"back"}
    ELSE NoError

\* lines 49-59: back and width against the type
ExclusiveError(type, back, width) ==
    IF type = "straight" /\ back # 0 THEN {"back"}
    ELSE IF type = "straight" /\ width # 0 THEN {"width"}
    ELSE IF type = "backAndForth" /\ width # 0 THEN {"width"}
    ELSE IF type = "zigzag" /\ back # 0 THEN {"back"}
    ELSE NoError

\* lines 48-68: the parameters the message of the ValueError names, or
\* NoError when no check fails
ValidationError(step, type, back, width) ==
    IF ExclusiveError(type, back, width) # NoError
    THEN ExclusiveError(type, back, width)
    ELSE IF BackRangeError(step, back) # NoError
    THEN BackRangeError(step, back)
    ELSE IF width < 0 THEN {"width"}
    ELSE NoError

\* "int(total_distance / step)", for step > 0
NumSteps(total_distance, step) == total_distance \div step

\* mutant: the end point is never appended
StraightTail_Never(start, end, step) == <<>>

\* mutant: the end point is appended in every case
StraightTail_Always(start, end, step) == <<end>>

\* lines 97-99: "if num_steps * step < total_distance: self.points.append(end)"
StraightTail(start, end, step) ==
    LET total_distance == TotalDistance(start, end)
    IN  IF NumSteps(total_distance, step) * step < total_distance
        THEN <<end>> ELSE <<>>

\* lines 87-99: the points appended after start by the straight type
StraightPoints(start, end, step) ==
    LET total_distance == TotalDistance(start, end)
    IN  [i \in 1..NumSteps(total_distance, step) |->
            PointAt(start, end, i * step)]
        \o StraightTail(start, end, step)

\* mutant: the retreat point is not emitted
RetreatPoints_None(start, end, forward_distance, back) == <<>>

\* lines 121-126: "if back > 0: ... self.points.append((x_back, y_back))"
RetreatPoints(start, end, forward_distance, back) ==
    IF back > 0 THEN <<PointAt(start, end, forward_distance - back)>>
    ELSE <<>>

\* lines 106-129: the points the backAndForth loop appends from
\* current_distance on
RECURSIVE BackAndForthPoints(_, _, _, _, _)
BackAndForthPoints(start, end, step, back, current_distance) ==
    LET total_distance == TotalDistance(start, end)
        forward_distance == current_distance + step
    IN  IF ~(current_distance < total_distance) THEN <<>>
        ELSE IF forward_distance >= total_distance THEN <<end>>
        ELSE <<PointAt(start, end, forward_distance)>>
             \o RetreatPoints(start, end, forward_distance, back)
             \o BackAndForthPoints(start, end, step, back,
                                   forward_distance - back)

\* mutant: the zigzag loop does not change side
ZigzagNextSide_Same(side) == side

\* lines 154 and 161: "side = -side"
ZigzagNextSide(side) == -side

\* lines 146-166: the points the zigzag loop appends from current_distance
\* on, side being the side of the point appended last
RECURSIVE ZigzagLoopPoints(_, _, _, _, _, _)
ZigzagLoopPoints(start, end, step, width, current_distance, side) ==
    LET total_distance == TotalDistance(start, end)
        advanced == current_distance + step
    IN  IF ~(current_distance < total_distance) THEN <<>>
        ELSE IF advanced >= total_distance
        THEN <<OffsetPoint(start, end, end, width,
                           ZigzagNextSide(side))>>
        ELSE <<OffsetPoint(start, end, PointAt(start, end, advanced),
                           width, ZigzagNextSide(side))>>
             \o ZigzagLoopPoints(start, end, step, width, advanced,
                                 ZigzagNextSide(side))

\* lines 131-166: the points appended after start by the zigzag type
ZigzagPoints(start, end, step, width) ==
    <<OffsetPoint(start, end, start, width, -1)>>
    \o ZigzagLoopPoints(start, end, step, width, 0, -1)

\* line 46, "self.points = []": the content of self.points afterwards
PointsAtEntry(old_points) == <<>>

\* mutant: self.points is emptied in place, the list object stays the same
PointsObjectKept_Same(is_points) == is_points

\* line 46, "self.points = []": self.points is bound to a new list, so no
\* list returned earlier is the object self.points any more
PointsObjectKept(is_points) == FALSE

\* mutant: equal start and end give no point at all
SamePointResult_Empty(start) == <<>>

\* lines 79-82: "self.points.append(start); return self.points"
SamePointResult(start) == <<start>>

\* lines 84-166: self.points when the type is one of the three patterns
PatternPoints(start, end, step, type, back, width) ==
    <<start>> \o
    (CASE type = "straight" -> StraightPoints(start, end, step)
       [] type = "backAndForth" -> BackAndForthPoints(start, end, step, back, 0)
       [] type = "zigzag" -> ZigzagPoints(start, end, step, width))

\* ------------------------------------------ calculate_path with floats
\* The float machine runs calculate_path with the arithmetic of Python
\* floats at a significand of MantissaBits bits: every sum, difference,
\* product and quotient is rounded to the nearest number m * 2^e with
\* m < 2^MantissaBits, ties to the even m.  The calls are from start = (0, 0)
\* to end = (total, 0), for which ux = 1 and uy = 0, so that the x
\* coordinate of a point is its distance along the line; numbers are
\* integers, and every argument is a number of the format.
RECURSIVE Pow2(_)
Pow2(n) == IF n = 0 THEN 1 ELSE 2 * Pow2(n - 1)

\* n / d rounded to the nearest integer, ties to the even one
RoundHalfEven(n, d) ==
    LET f == n \div d
        twice_rest == 2 * (n - f * d)
    IN  IF twice_rest < d THEN f
        ELSE IF twice_rest > d THEN f + 1
        ELSE IF f % 2 = 0 THEN f ELSE f + 1

\* the integer x >= 0 rounded to the format
Fl(x) ==
    LET e == CHOOSE k \in 0..MaxExponent :
                 /\ x < Pow2(MantissaBits + k)
                 /\ k = 0 \/ x >= Pow2(MantissaBits + k - 1)
    IN  RoundHalfEven(x, Pow2(e)) * Pow2(e)

\* a + b, a - b and a * b on floats
FloatAdd(a, b) == Fl(a + b)

FloatSub(a, b) == Fl(a - b)

FloatMul(a, b) == Fl(a * b)

\* "int(total_distance / step)": the quotient rounded to the format, then
\* truncated
FloatNumSteps(total_distance, step) ==
    IF 2 * total_distance < step THEN 0
    ELSE LET n == total_distance * Pow2(MantissaBits)
             e == CHOOSE k \in 0..MaxExponent :
                      /\ n < Pow2(MantissaBits + k) * step
                      /\ k = 0 \/ n >= Pow2(MantissaBits + k - 1) * step
         IN  (RoundHalfEven(n, step * Pow2(e)) * Pow2(e))
             \div Pow2(MantissaBits)

\* lines 84-99 on floats: the x coordinates of the points of a straight call
FloatStraight(total_distance, step) ==
    LET num_steps == FloatNumSteps(total_distance, step)
    IN  <<0>>
        \o [i \in 1..num_steps |-> FloatMul(i, step)]
        \o (IF FloatMul(num_steps, step) < total_distance
            THEN <<total_distance>> ELSE <<>>)

\* self.points.append, on a list of which at most MaxEmitted points are kept
Emit(list, x) == IF Len(list) < MaxEmitted THEN Append(list, x) ELSE list

\* the arguments of the calls of the float machine
FloatTypes == {"backAndForth", "zigzag"}

FloatTotals == {12, 16, 20}

FloatSteps == {1, 3, 8}

FloatBacks == {0, 1, 7}

\* ------------------------------------------------------------------ Init
\* RoboWatchGUI.__init__
Init ==
    /\ plotter = FALSE
    /\ current_mesh = FALSE
    /\ picked_points = <<>>
    /\ point_path_id = <<>>
    /\ point_normals = <<>>
    /\ current_path_id = 0
    /\ point_picking_mode = FALSE
    /\ top_view_mode = FALSE
    /\ side_view_mode = FALSE
    /\ torch_distance = DefaultTorchDistance
    /\ simulation_mode = FALSE
    /\ selected_path_id = None
    /\ current_point_index = 0
    /\ simulation_path_dropdown = <<>>
    /\ since_last_pick = Min(PastTicks, ElapsedCap)
    /\ since_accepted_pick = ElapsedCap
    /\ camera = NoCamera
    /\ saved_camera_state = NoCamera
    /\ saved_side_camera_state = NoCamera
    /\ interaction_frozen = FALSE
    /\ path_points = <<>>
    /\ args = NoCall
    /\ returned = NoResult
    /\ raised = NoError
    /\ kept_args = NoCall
    /\ kept_list = <<>>
    /\ kept_original = <<>>
    /\ kept_is_points = FALSE
    /\ fl_args = NoCall
    /\ fl_pc = "idle"
    /\ fl_current = 0
    /\ fl_points = <<>>

\* ------------------------------------------------------ torch simulation
\* update_torch_position, the clamp of current_point_index: nothing changes
\* when no path is selected, there is no plotter or the path has no entry
ClampedIndex(ids, selected, index, has_plotter) ==
    LET n == Len(PathPointIndices(ids, selected))
    IN  IF selected = None \/ ~has_plotter \/ n = 0 THEN index
        ELSE IF index >= n THEN n - 1
        ELSE IF index < 0 THEN 0
        ELSE index

\* update_torch_position reads self.picked_points[global_index]: TRUE when
\* that read is past the end of picked_points (IndexError)
TorchPointMissing(points, ids, selected, index, has_plotter) ==
    LET indices == PathPointIndices(ids, selected)
        i == ClampedIndex(ids, selected, index, has_plotter)
    IN  /\ selected # None
        /\ has_plotter
        /\ indices # <<>>
        /\ indices[i + 1] > Len(points)

\* toggle_simulation_mode as a function of the store it finds: the values of
\* simulation_mode, selected_path_id, current_point_index and the dropdown
\* afterwards.  Entering lists sorted(set(point_path_id)) and selects the
\* first entry; leaving clears the selection and the dropdown.
SimulationAfterToggle(points, ids, sim, selected, index, dropdown, has_plotter) ==
    IF points = <<>>
    THEN [simulation_mode |-> sim, selected_path_id |-> selected,
          current_point_index |-> index, simulation_path_dropdown |-> dropdown]
    ELSE IF ~sim
    THEN [simulation_mode |-> TRUE,
          selected_path_id |-> SortedSet(ids)[1],
          current_point_index |->
              ClampedIndex(ids, SortedSet(ids)[1], 0, has_plotter),
          simulation_path_dropdown |-> SortedSet(ids)]
    ELSE [simulation_mode |-> FALSE, selected_path_id |-> None,
          current_point_index |-> 0, simulation_path_dropdown |-> <<>>]

\* toggle_simulation_mode
ToggleSimulationMode ==
    LET after == SimulationAfterToggle(picked_points, point_path_id,
                     simulation_mode, selected_path_id, current_point_index,
                     simulation_path_dropdown, plotter)
    IN  /\ simulation_mode' = after.simulation_mode
        /\ selected_path_id' = after.selected_path_id
        /\ current_point_index' = after.current_point_index
        /\ simulation_path_dropdown' = after.simulation_path_dropdown
        /\ UNCHANGED <<plotter, current_mesh, storeVars, current_path_id,
                       point_picking_mode, viewVars, torch_distance,
                       since_last_pick,
                       since_accepted_pick>>
        /\ UNCHANGED cameraVars
        /\ UNCHANGED robotVars

\* on_simulation_path_selected, the user choosing entry k of the dropdown
\* (currentIndexChanged fires only for an entry other than the current one)
OnSimulationPathSelected(k) ==
    /\ k \in 1..Len(simulation_path_dropdown)
    /\ simulation_path_dropdown[k] # selected_path_id
    /\ selected_path_id' = simulation_path_dropdown[k]
    /\ current_point_index' =
          ClampedIndex(point_path_id, simulation_path_dropdown[k], 0, plotter)
    /\ UNCHANGED <<plotter, current_mesh, storeVars, current_path_id,
                   point_picking_mode, viewVars, torch_distance,
                   simulation_mode, simulation_path_dropdown, since_last_pick,
                   since_accepted_pick>>
    /\ UNCHANGED cameraVars
    /\ UNCHANGED robotVars

\* "if self.current_point_index < path_point_count - 1"
CanStepForward(ids, selected, index) == index < CountPath(ids, selected) - 1

\* "if self.current_point_index > 0"
CanStepBack(index) == index > 0

\* on_simulation_fwd
OnSimulationFwd ==
    /\ IF selected_path_id = None
       THEN /\ UNCHANGED current_point_index
       ELSE IF CanStepForward(point_path_id, selected_path_id, current_point_index)
       THEN /\ current_point_index' =
                  ClampedIndex(point_path_id, selected_path_id,
                               current_point_index + 1, plotter)
       ELSE /\ UNCHANGED current_point_index
    /\ UNCHANGED <<plotter, current_mesh, storeVars, current_path_id,
                   point_picking_mode, viewVars, torch_distance,
                   simulation_mode, selected_path_id,
                   simulation_path_dropdown, since_last_pick,
                   since_accepted_pick>>
    /\ UNCHANGED cameraVars
    /\ UNCHANGED robotVars

\* on_simulation_back
OnSimulationBack ==
    /\ IF selected_path_id = None
       THEN /\ UNCHANGED current_point_index
       ELSE IF CanStepBack(current_point_index)
       THEN /\ current_point_index' =
                  ClampedIndex(point_path_id, selected_path_id,
                               current_point_index - 1, plotter)
       ELSE /\ UNCHANGED current_point_index
    /\ UNCHANGED <<plotter, current_mesh, storeVars, current_path_id,
                   point_picking_mode, viewVars, torch_distance,
                   simulation_mode, selected_path_id,
                   simulation_path_dropdown, since_last_pick,
                   since_accepted_pick>>
    /\ UNCHANGED cameraVars
    /\ UNCHANGED robotVars

\* the slider positions tried, in tenths of a mm (range 0 .. 100)
TorchSliderValues == {TorchSliderMin, DefaultTorchDistance}

\* on_torch_distance_change(value)
OnTorchDistanceChange(value) ==
    /\ value \in TorchSliderMin..TorchSliderMax
    /\ torch_distance' = value
    /\ current_point_index' =
          IF simulation_mode /\ selected_path_id # None
          THEN ClampedIndex(point_path_id, selected_path_id,
                            current_point_index, plotter)
          ELSE current_point_index
    /\ UNCHANGED <<plotter, current_mesh, storeVars, current_path_id,
                   point_picking_mode, viewVars, simulation_mode,
                   selected_path_id, simulation_path_dropdown,
                   since_last_pick,
                   since_accepted_pick>>
    /\ UNCHANGED cameraVars
    /\ UNCHANGED robotVars

\* ------------------------------------------------------------ view locks
\* toggle_top_view: "self.top_view_mode = not self.top_view_mode"
ToggledFlag(flag) == ~flag

\* mutant: entering a lock leaves the flag of the other lock as it is
OtherLockOnEnter_Kept(other) == other

\* toggle_top_view / toggle_side_view, activating branch: the flag of the
\* other lock ("self.side_view_mode = False", "self.top_view_mode = False")
OtherLockOnEnter(other) == FALSE

\* deactivating branch: "if self.point_picking_mode: self.point_picking_mode = False"
PickingOnExit(picking) == FALSE

\* set_top_view / set_side_view: "if not self.plotter or not
\* self.saved_camera_state: return"
SetViewRejected(saved, has_plotter) == ~has_plotter \/ saved = NoCamera

\* mutant: entering a lock freezes the view where the camera is
CameraOnEnter_Kept(cam, saved, has_plotter) == cam

\* set_top_view / set_side_view: the camera afterwards (the saved state is
\* restored) and whether the interaction is frozen afterwards
CameraOnEnter(cam, saved, has_plotter) ==
    IF SetViewRejected(saved, has_plotter) THEN cam ELSE saved

FrozenOnEnter(frozen, saved, has_plotter) ==
    IF SetViewRejected(saved, has_plotter) THEN frozen ELSE TRUE

\* mutant: leaving a lock puts the camera back to the saved state
CameraOnExit_Saved(cam, saved) == saved

\* restore_normal_view: the camera is kept ("camera position kept")
CameraOnExit(cam, saved) == cam

\* mutant: leaving a lock leaves the interactor style as it is
FrozenOnExit_Kept(frozen, has_plotter) == frozen

\* restore_normal_view: the trackball style is set when there is a plotter
FrozenOnExit(frozen, has_plotter) == IF has_plotter THEN FALSE ELSE frozen

\* toggle_top_view (set_top_view / restore_normal_view return at once when
\* there is no plotter; the flags are already changed by then)
ToggleTopView ==
    /\ top_view_mode' = ToggledFlag(top_view_mode)
    /\ IF top_view_mode'
       THEN /\ side_view_mode' = OtherLockOnEnter(side_view_mode)
            /\ UNCHANGED point_picking_mode
            /\ camera' = CameraOnEnter(camera, saved_camera_state, plotter)
            /\ interaction_frozen' =
                  FrozenOnEnter(interaction_frozen, saved_camera_state, plotter)
       ELSE /\ UNCHANGED side_view_mode
            /\ point_picking_mode' = PickingOnExit(point_picking_mode)
            /\ camera' = CameraOnExit(camera, saved_camera_state)
            /\ interaction_frozen' = FrozenOnExit(interaction_frozen, plotter)
    /\ UNCHANGED <<plotter, current_mesh, storeVars, current_path_id,
                   torch_distance, simVars, since_last_pick,
                   since_accepted_pick, saved_camera_state,
                   saved_side_camera_state>>
    /\ UNCHANGED robotVars

\* toggle_side_view
ToggleSideView ==
    /\ side_view_mode' = ToggledFlag(side_view_mode)
    /\ IF side_view_mode'
       THEN /\ top_view_mode' = OtherLockOnEnter(top_view_mode)
            /\ UNCHANGED point_picking_mode
            /\ camera' = CameraOnEnter(camera, saved_side_camera_state, plotter)
            /\ interaction_frozen' =
                  FrozenOnEnter(interaction_frozen, saved_side_camera_state,
                                plotter)
       ELSE /\ UNCHANGED top_view_mode
            /\ point_picking_mode' = PickingOnExit(point_picking_mode)
            /\ camera' = CameraOnExit(camera, saved_side_camera_state)
            /\ interaction_frozen' = FrozenOnExit(interaction_frozen, plotter)
    /\ UNCHANGED <<plotter, current_mesh, storeVars, current_path_id,
                   torch_distance, simVars, since_last_pick,
                   since_accepted_pick, saved_camera_state,
                   saved_side_camera_state>>
    /\ UNCHANGED robotVars

\* mutant: rotate does not look at the lock flags
RotateIgnored_NoModeCheck(top, side, has_plotter) == ~has_plotter

\* rotate_view_cw / rotate_view_ccw: "if not (self.top_view_mode or
\* self.side_view_mode) or not self.plotter: return"
RotateIgnored(top, side, has_plotter) == ~(top \/ side) \/ ~has_plotter

\* rotate_view_cw / rotate_view_ccw: in top lock the up vector is turned
\* about Z; in side lock the position is turned about Z around the mesh
\* centre, the focal point is the mesh centre and up is Z
RotatedCamera(cam, top, dir) ==
    IF top
    THEN [cam EXCEPT !.up = RotateZ(cam.up, dir)]
    ELSE LET relative_pos == <<cam.position[1] - MeshCenter[1],
                               cam.position[2] - MeshCenter[2],
                               cam.position[3] - MeshCenter[3]>>
             rotated_pos == RotateZ(relative_pos, dir)
         IN  [position |-> <<MeshCenter[1] + rotated_pos[1],
                             MeshCenter[2] + rotated_pos[2],
                             MeshCenter[3] + rotated_pos[3]>>,
              focal_point |-> MeshCenter,
              up |-> <<0, 0, 1>>]

\* rotate_view_cw (dir = -1) and rotate_view_ccw (dir = 1)
RotateView(dir) ==
    /\ camera' = IF RotateIgnored(top_view_mode, side_view_mode, plotter)
                 THEN camera
                 ELSE RotatedCamera(camera, top_view_mode, dir)
    /\ UNCHANGED <<plotter, current_mesh, storeVars, current_path_id,
                   point_picking_mode, viewVars, torch_distance, simVars,
                   since_last_pick, since_accepted_pick, saved_camera_state,
                   saved_side_camera_state, interaction_frozen>>
    /\ UNCHANGED robotVars

RotateViewCw == RotateView(-1)

RotateViewCcw == RotateView(1)

\* the user drags the view: the trackball style moves the camera, the
\* frozen style (vtkInteractorStyleNone) does not
CameraDrag ==
    /\ plotter
    /\ ~interaction_frozen
    /\ camera' = DraggedPose
    /\ UNCHANGED <<plotter, current_mesh, storeVars, current_path_id,
                   point_picking_mode, viewVars, torch_distance, simVars,
                   since_last_pick, since_accepted_pick, saved_camera_state,
                   saved_side_camera_state, interaction_frozen>>
    /\ UNCHANGED robotVars

\* --------------------------------------------------------- point picking
\* toggle_point_picking: "if not (self.top_view_mode or self.side_view_mode): return"
PickingToggleAllowed(top, side) == top \/ side

\* "self.current_path_id += 1"
NextPathId(cur) == cur + 1

\* toggle_point_picking, starting branch: "self.last_pick_time = time.time() - 1",
\* as the time elapsed since last_pick_time
LastPickOnStart(elapsed) == Min(PastTicks, ElapsedCap)

\* toggle_point_picking
TogglePointPicking ==
    /\ IF ~PickingToggleAllowed(top_view_mode, side_view_mode)
       THEN /\ UNCHANGED <<point_picking_mode, current_path_id, since_last_pick>>
       ELSE IF ~point_picking_mode
       THEN /\ current_path_id < MaxPathId
            /\ point_picking_mode' = TRUE
            /\ current_path_id' = NextPathId(current_path_id)
            /\ since_last_pick' = LastPickOnStart(since_last_pick)
       ELSE /\ point_picking_mode' = FALSE
            /\ UNCHANGED <<current_path_id, since_last_pick>>
    /\ UNCHANGED <<plotter, current_mesh, storeVars, viewVars,
                   torch_distance, simVars, since_accepted_pick>>
    /\ UNCHANGED cameraVars
    /\ UNCHANGED robotVars

\* mutant: the pick handler does not look at point_picking_mode
PickIgnored_NoModeCheck(picking, has_plotter) == ~has_plotter

\* _on_mesh_pick: "if not self.point_picking_mode or not self.plotter: return"
PickIgnored(picking, has_plotter) == ~picking \/ ~has_plotter

\* "if current_time - self.last_pick_time < 0.1: return"
Debounced(elapsed) == elapsed < DebounceTicks

\* mutant: the path id stored counts down from MaxPathId
AppendedPathId_Mirrored(cur) == MaxPathId + 1 - cur

\* add_picked_point: the path id stored with the new point
AppendedPathId(cur) == cur

\* add_picked_point: "sum(1 for pid in self.point_path_id if pid == self.current_path_id)"
\* evaluated after the append
PointsInCurrentPath(ids_after, cur) == CountPath(ids_after, cur)

\* _on_mesh_pick for a click whose ray hits the surface at hit, or misses
\* it (hit = NoHit); a hit calls _calculate_surface_normal and add_picked_point
OnMeshPick(hit) ==
    /\ hit \in SurfacePoints \cup {NoHit}
    /\ IF PickIgnored(point_picking_mode, plotter)
       THEN /\ UNCHANGED <<storeVars, since_last_pick, since_accepted_pick>>
       ELSE IF Debounced(since_last_pick)
       THEN /\ UNCHANGED <<storeVars, since_last_pick, since_accepted_pick>>
       ELSE IF hit = NoHit
       THEN /\ since_last_pick' = 0
            /\ UNCHANGED <<storeVars, since_accepted_pick>>
       ELSE /\ Len(point_path_id) < MaxPoints
            /\ since_last_pick' = 0
            /\ since_accepted_pick' = 0
            /\ picked_points' = Append(picked_points, hit)
            /\ point_path_id' =
                  Append(point_path_id, AppendedPathId(current_path_id))
            /\ point_normals' =
                  Append(point_normals, CalculateSurfaceNormal(hit))
    /\ UNCHANGED <<plotter, current_mesh, current_path_id,
                   point_picking_mode, viewVars, torch_distance, simVars>>
    /\ UNCHANGED cameraVars
    /\ UNCHANGED robotVars

\* time passes: one tick more since the last pick
Tick ==
    /\ since_last_pick < ElapsedCap \/ since_accepted_pick < ElapsedCap
    /\ since_last_pick' = Min(since_last_pick + 1, ElapsedCap)
    /\ since_accepted_pick' = Min(since_accepted_pick + 1, ElapsedCap)
    /\ UNCHANGED <<plotter, current_mesh, storeVars, current_path_id,
                   point_picking_mode, viewVars, torch_distance, simVars>>
    /\ UNCHANGED cameraVars
    /\ UNCHANGED robotVars

\* ---------------------------------------------------------- clear points
\* clear_points, picked_points afterwards ('all' checked: emptied; otherwise
\* the last point popped, if there is one)
PointsAfterClear(points, all) ==
    IF all THEN <<>>
    ELSE IF Len(points) > 0 THEN DropLast(points) ELSE points

\* clear_points, point_normals afterwards
NormalsAfterClear(points, normals, all) ==
    IF all THEN <<>>
    ELSE IF Len(points) > 0 /\ normals # <<>> THEN DropLast(normals)
    ELSE normals

\* clear_points, point_path_id afterwards: neither branch touches it
PathIdsAfterClear(points, ids, all) == ids

\* clear_points; all is the state of the 'all' radio button.  When no point
\* is left and simulation mode is on, toggle_simulation_mode is called on
\* the store already cleared.  The final render needs the plotter.
ClearPoints(all) ==
    LET points == PointsAfterClear(picked_points, all)
        after == IF points = <<>> /\ simulation_mode
                 THEN SimulationAfterToggle(points, point_path_id,
                          simulation_mode, selected_path_id,
                          current_point_index, simulation_path_dropdown,
                          plotter)
                 ELSE [simulation_mode |-> simulation_mode,
                       selected_path_id |-> selected_path_id,
                       current_point_index |-> current_point_index,
                       simulation_path_dropdown |-> simulation_path_dropdown]
    IN  /\ all \in BOOLEAN
        /\ picked_points' = points
        /\ point_normals' = NormalsAfterClear(picked_points, point_normals, all)
        /\ point_path_id' = PathIdsAfterClear(picked_points, point_path_id, all)
        /\ simulation_mode' = after.simulation_mode
        /\ selected_path_id' = after.selected_path_id
        /\ current_point_index' = after.current_point_index
        /\ simulation_path_dropdown' = after.simulation_path_dropdown
        /\ UNCHANGED <<plotter, current_mesh, current_path_id,
                       point_picking_mode, viewVars, torch_distance,
                       since_last_pick,
                       since_accepted_pick>>
        /\ UNCHANGED cameraVars
        /\ UNCHANGED robotVars

\* ----------------------------------------------------------- load / save
\* save_stl_file: without a mesh it returns at once; with one it writes the
\* STL file and SavedFile next to it.  The object's own state is not changed.
SaveStlFile ==
    /\ UNCHANGED <<plotter, current_mesh, storeVars, current_path_id,
                   point_picking_mode, viewVars, torch_distance, simVars,
                   since_last_pick,
                   since_accepted_pick>>
    /\ UNCHANGED cameraVars
    /\ UNCHANGED robotVars

\* display_mesh: "self.top_view_mode = False; self.side_view_mode = False"
ViewFlagAfterDisplay(flag) == FALSE

\* _load_stl: the mesh is read, display_mesh creates the plotter and clears
\* both lock flags, and the .json file next to the STL file, if there is
\* one, is read by load_paths_from_json.  file is that file: one written by
\* other means, the one save_stl_file writes in this state, or NoFile.
LoadStl(file) ==
    /\ file \in ExternalFiles \cup UncheckedFiles \cup {NoFile}
                \cup (IF current_mesh THEN {SavedFile} ELSE {})
    /\ plotter' = TRUE
    /\ current_mesh' = TRUE
    /\ top_view_mode' = ViewFlagAfterDisplay(top_view_mode)
    /\ side_view_mode' = ViewFlagAfterDisplay(side_view_mode)
    /\ IF file = NoFile
       THEN /\ UNCHANGED <<storeVars, current_path_id, torch_distance>>
       ELSE LET loaded == LoadPathsFromJson(file, torch_distance)
            IN  /\ picked_points' = loaded.picked_points
                /\ point_path_id' = loaded.point_path_id
                /\ point_normals' = loaded.point_normals
                /\ current_path_id' = loaded.current_path_id
                /\ torch_distance' = loaded.torch_distance
    /\ camera' = TopViewState
    /\ saved_camera_state' = TopViewState
    /\ saved_side_camera_state' = SideViewState
    /\ interaction_frozen' = FALSE
    /\ UNCHANGED <<point_picking_mode, simVars, since_last_pick,
                   since_accepted_pick>>
    /\ UNCHANGED robotVars

\* _load_stl when pv.read raises (a file that is no mesh): the old plotter
\* is closed and dropped before the read, nothing else is assigned
LoadStlFailed ==
    /\ plotter' = FALSE
    /\ camera' = NoCamera
    /\ interaction_frozen' = FALSE
    /\ UNCHANGED <<current_mesh, storeVars, current_path_id,
                   point_picking_mode, viewVars, torch_distance, simVars,
                   since_last_pick, since_accepted_pick,
                   saved_camera_state, saved_side_camera_state>>
    /\ UNCHANGED robotVars

\* ------------------------------------------------------------------ Next
\* ------------------------------------------------- RobotPath.calculate_path
\* calculate_path(start, end, step, type, back, width): self.points
\* (path_points) is
\* emptied first; a ValueError leaves it as it is at the raise
CalculatePath(start, end, step, type, back, width) ==
    /\ args' = [start |-> start, end |-> end, step |-> step, type |-> type,
                back |-> back, width |-> width]
    /\ IF ValidationError(step, type, back, width) # NoError
       THEN /\ path_points' = PointsAtEntry(path_points)
            /\ returned' = NoResult
            /\ raised' = ValidationError(step, type, back, width)
       ELSE IF ~(TotalDistance(start, end) > 0)
       THEN /\ path_points' = PointsAtEntry(path_points) \o SamePointResult(start)
            /\ returned' = path_points'
            /\ raised' = NoError
       ELSE IF type \notin PatternTypes
       THEN /\ path_points' = PointsAtEntry(path_points) \o <<start>>
            /\ returned' = NoResult
            /\ raised' = {"type"}
       ELSE /\ path_points' =
                  PointsAtEntry(path_points)
                  \o PatternPoints(start, end, step, type, back, width)
            /\ returned' = path_points'
            /\ raised' = NoError
    /\ kept_is_points' = PointsObjectKept(kept_is_points)
    /\ kept_list' = IF kept_is_points' THEN path_points' ELSE kept_list
    /\ UNCHANGED <<kept_args, kept_original>>
    /\ UNCHANGED floatVars
    /\ UNCHANGED guiVars

\* the caller keeps the list the last call returned ("return self.points":
\* the list returned is the object self.points itself)
KeepReturned ==
    /\ returned # NoResult
    /\ kept_args' = args
    /\ kept_list' = returned
    /\ kept_original' = returned
    /\ kept_is_points' = TRUE
    /\ UNCHANGED <<path_points, args, returned, raised>>
    /\ UNCHANGED floatVars
    /\ UNCHANGED guiVars

\* calculate_path((0, 0), (total, 0), step, type, back) on floats, up to
\* the loop: the arguments pass validation (lines 48-68), start is appended
\* (line 85) and, for zigzag, the displaced start (line 144)
StartLoop(type, total_distance, step, back) ==
    /\ fl_pc # "loop"
    /\ ValidationError(step, type, back, 0) = NoError
    /\ total_distance > 0
    /\ fl_args' = [type |-> type, total |-> total_distance, step |-> step,
                   back |-> back]
    /\ fl_pc' = "loop"
    /\ fl_current' = 0
    /\ fl_points' = IF type = "zigzag" THEN <<0, 0>> ELSE <<0>>
    /\ UNCHANGED callVars
    /\ UNCHANGED guiVars

\* one iteration of "while current_distance < total_distance" of the
\* backAndForth branch (lines 106-129) or of the zigzag branch (146-166)
LoopIterate ==
    /\ fl_pc = "loop"
    /\ IF ~(fl_current < fl_args.total)
       THEN /\ fl_pc' = "done"
            /\ UNCHANGED <<fl_current, fl_points>>
       ELSE LET advanced == FloatAdd(fl_current, fl_args.step)
            IN  IF advanced >= fl_args.total
                THEN /\ fl_pc' = "done"
                     /\ fl_points' = Emit(fl_points, fl_args.total)
                     /\ fl_current' = IF fl_args.type = "zigzag"
                                      THEN advanced ELSE fl_current
                ELSE /\ fl_pc' = "loop"
                     /\ fl_points' =
                           IF fl_args.type = "backAndForth" /\ fl_args.back > 0
                           THEN Emit(Emit(fl_points, advanced),
                                     FloatSub(advanced, fl_args.back))
                           ELSE Emit(fl_points, advanced)
                     /\ fl_current' =
                           IF fl_args.type = "backAndForth"
                           THEN FloatSub(advanced, fl_args.back)
                           ELSE advanced
    /\ UNCHANGED fl_args
    /\ UNCHANGED callVars
    /\ UNCHANGED guiVars

Next ==
    \/ \E file \in ExternalFiles \cup {NoFile, SavedFile} : LoadStl(file)
    \/ LoadStlFailed
    \/ SaveStlFile
    \/ ToggleTopView
    \/ ToggleSideView
    \/ TogglePointPicking
    \/ \E hit \in SurfacePoints \cup {NoHit} : OnMeshPick(hit)
    \/ Tick
    \/ \E all \in BOOLEAN : ClearPoints(all)
    \/ ToggleSimulationMode
    \/ \E k \in 1..MaxPathId : OnSimulationPathSelected(k)
    \/ OnSimulationFwd
    \/ OnSimulationBack
    \/ \E value \in TorchSliderValues : OnTorchDistanceChange(value)

Spec == Init /\ [][Next]_vars

\* The view machine: the handlers that read or write the lock flags, the
\* camera and the interactor style, with rotate and the user's dragging.
ViewNext ==
    \/ \E file \in {NoFile, FileNoNormals} : LoadStl(file)
    \/ LoadStlFailed
    \/ ToggleTopView
    \/ ToggleSideView
    \/ RotateViewCw
    \/ RotateViewCcw
    \/ CameraDrag
    \/ TogglePointPicking

ViewSpec == Init /\ [][ViewNext]_vars

\* The load machine: _load_stl over every kind of .json file, with the
\* handlers that change what a load finds (the store, the counter and the
\* torch distance) or that write the file.
LoadNext ==
    \/ \E file \in ExternalFiles \cup UncheckedFiles \cup {NoFile, SavedFile} :
          LoadStl(file)
    \/ SaveStlFile
    \/ ToggleTopView
    \/ TogglePointPicking
    \/ \E hit \in SurfacePoints : OnMeshPick(hit)
    \/ Tick
    \/ \E value \in TorchSliderValues : OnTorchDistanceChange(value)

LoadSpec == Init /\ [][LoadNext]_vars

\* The picking machine: a store built from empty by starting and stopping
\* paths and by picks, on a mesh loaded without a .json file.
PickNext ==
    \/ LoadStl(NoFile)
    \/ ToggleTopView
    \/ ToggleSideView
    \/ TogglePointPicking
    \/ \E hit \in SurfacePoints \cup {NoHit} : OnMeshPick(hit)
    \/ Tick

PickSpec == Init /\ [][PickNext]_vars

\* The RobotPath machine: calls of calculate_path on one instance.
RobotNext ==
    \E start \in Starts, d \in Displacements, step \in Steps, type \in Types,
       back \in Backs, width \in Widths :
        CalculatePath(start, <<start[1] + d[1], start[2] + d[2]>>, step, type,
                      back, width)

RobotSpec == Init /\ [][RobotNext]_vars

\* The float machine: calls of calculate_path run one loop iteration at a
\* time; the loop is not interrupted, so an iteration that can be taken is
\* taken.
FloatNext ==
    \/ \E type \in FloatTypes, total_distance \in FloatTotals,
          step \in FloatSteps, back \in FloatBacks :
          StartLoop(type, total_distance, step, back)
    \/ LoopIterate

FloatSpec == Init /\ [][FloatNext]_vars /\ WF_vars(LoopIterate)

\* The RobotPath machine with a caller that holds on to returned lists,
\* over fewer arguments.
KeepDisplacements == {<<0, 0>>, <<30, 40>>}

KeepSteps == {20}

KeepBacks == {0, 5}

KeepWidths == {0, 10}

KeepNext ==
    \/ \E start \in Starts, d \in KeepDisplacements, step \in KeepSteps,
          type \in Types, back \in KeepBacks, width \in KeepWidths :
          CalculatePath(start, <<start[1] + d[1], start[2] + d[2]>>, step,
                        type, back, width)
    \/ KeepReturned

KeepSpec == Init /\ [][KeepNext]_vars

\* ======================================================================
\* Properties
\* ======================================================================

\* the files _load_stl can find next to the STL file
Files == ExternalFiles \cup {NoFile, SavedFile}

\* a pick event that appended a point (an accepted pick)
AcceptedPick ==
    \E hit \in SurfacePoints :
        OnMeshPick(hit) /\ picked_points' # picked_points

\* the number of stored points that carry path_id: the entries of
\* picked_points whose path id, at the same index, is path_id
StoredInPath(path_id) ==
    Cardinality({i \in 1..Len(picked_points) :
                    i <= Len(point_path_id) /\ point_path_id[i] = path_id})

\* the store read back from the file written in the current state
RoundTrip == LoadPathsFromJson(SavedFile, torch_distance)

\* C1: in every reachable store, saving to JSON and loading the file back
\* gives the same ordered point positions, for each point the path id the
\* store pairs with it (point_path_id at the point's index), the same normal
\* for each point and the same torch distance.
C1_RoundTripKeepsStore ==
    /\ RoundTrip.picked_points = picked_points
    /\ Len(RoundTrip.point_path_id) = Len(picked_points)
    /\ \A i \in 1..Len(picked_points) :
          RoundTrip.point_path_id[i] = point_path_id[i]
    /\ RoundTrip.point_normals = point_normals
    /\ RoundTrip.torch_distance = torch_distance

\* C1 witness: two picked points of two paths, the first with the normal of
\* its vertex, and a torch distance moved off its default.
C1_Witness ==
    /\ current_mesh
    /\ Len(picked_points) = 2
    /\ point_path_id = <<1, 2>>
    /\ point_normals[1] = <<1, 0, 0>>
    /\ torch_distance # DefaultTorchDistance

\* C2: a pick event that arrives while no path is active (picking not armed)
\* leaves the points, the path ids and the normals unchanged.
C2_PickNeedsActivePath ==
    [][\A hit \in SurfacePoints \cup {NoHit} :
          (OnMeshPick(hit) /\ ~point_picking_mode) => UNCHANGED storeVars]_vars

\* C2 witness: a mesh is shown, points are stored, no path is active, the
\* debounce window is over and a click hits the surface; the click is taken
\* by _on_mesh_pick and, being ignored, leaves exactly this state.
C2_Witness ==
    /\ plotter
    /\ ~point_picking_mode
    /\ picked_points # <<>>
    /\ ~Debounced(since_last_pick)
    /\ ENABLED (\E hit \in SurfacePoints : OnMeshPick(hit))

\* C3: remove-last on a non-empty store removes the last point together with
\* its path id and its normal, and leaves every earlier entry as it is.
C3_RemoveLastPopsAllThree ==
    [][(ClearPoints(FALSE) /\ picked_points # <<>>) =>
          /\ picked_points' = DropLast(picked_points)
          /\ point_path_id' = DropLast(point_path_id)
          /\ point_normals' = DropLast(point_normals)]_vars

\* C4: when a point is appended, the number in its label minus one equals
\* the number of points stored before it with the same path id, so the
\* first stored point of a path is labelled as its start (order 0).
C4_OrderInPathCountsStoredPoints ==
    [][AcceptedPick =>
          PointsInCurrentPath(point_path_id', current_path_id) - 1
              = StoredInPath(current_path_id)]_vars

\* a step of toggle_point_picking that starts a path
StartPath == TogglePointPicking /\ ~point_picking_mode /\ point_picking_mode'

C6_LocksAreExclusive ==
    /\ [](~(top_view_mode /\ side_view_mode))
    /\ [][/\ (ToggleSideView /\ top_view_mode) =>
                (side_view_mode' /\ ~top_view_mode')
          /\ (ToggleTopView /\ side_view_mode) =>
                (top_view_mode' /\ ~side_view_mode')]_vars

\* C6 witness: the top lock is active on a displayed mesh and toggle_side_view,
\* taken from this state, ends with the side lock alone.
C6_Witness ==
    /\ plotter
    /\ top_view_mode
    /\ ~side_view_mode
    /\ ENABLED (ToggleSideView /\ side_view_mode' /\ ~top_view_mode')

\* C7: as long as no mesh has been loaded, lock toggles are rejected: both
\* mode flags stay false and picking is not armed.
C7_NoLockBeforeMesh ==
    ~current_mesh =>
        (~top_view_mode /\ ~side_view_mode /\ ~point_picking_mode)

\* C8: while picking is armed the view is locked (top or side).
C8_PickingImpliesLock ==
    point_picking_mode => (top_view_mode \/ side_view_mode)

\* C9: after loading a mesh the view is FREE, picking is not armed, the
\* store and the counter hold only what the mesh's own JSON file gives
\* (nothing and 0 without a file), and no simulation path is selected.
C9_LoadResetsCore ==
    [][\A file \in Files :
          LoadStl(file) =>
              /\ ~top_view_mode' /\ ~side_view_mode'
              /\ ~point_picking_mode'
              /\ picked_points' =
                    LoadPathsFromJson(file, torch_distance).picked_points
              /\ current_path_id' =
                    LoadPathsFromJson(file, torch_distance).current_path_id
              /\ selected_path_id' = None]_vars

\* C10: when a simulation path is selected, current_point_index lies in
\* [0, n - 1], n being the number of stored points of the selected path.
C10_IndexWithinSelectedPath ==
    selected_path_id # None =>
        /\ 0 <= current_point_index
        /\ current_point_index <= StoredInPath(selected_path_id) - 1

\* a step on which update_torch_position places the torch: it is called and
\* gets past its guards (a path selected, a plotter, an entry with that id)
TorchPositioned ==
    /\ \/ ToggleSimulationMode /\ ~simulation_mode /\ simulation_mode'
       \/ \E k \in 1..MaxPathId : OnSimulationPathSelected(k)
       \/ OnSimulationFwd /\ current_point_index' # current_point_index
       \/ OnSimulationBack /\ current_point_index' # current_point_index
       \/ /\ \E value \in TorchSliderValues : OnTorchDistanceChange(value)
          /\ simulation_mode
          /\ selected_path_id # None
    /\ plotter'
    /\ selected_path_id' # None
    /\ CountPath(point_path_id', selected_path_id') > 0

\* the index update_torch_position reads picked_points at (1-based)
TorchGlobalIndex ==
    PathPointIndices(point_path_id, selected_path_id)[current_point_index + 1]

\* the indices of the stored points of the selected path, in insertion order
SelectedStoredIndices ==
    PathPointIndices(SubSeq(point_path_id, 1, Len(picked_points)),
                     selected_path_id)

\* the number of stored points of the selected path
SelectedPathStored == StoredInPath(selected_path_id)

\* the point the torch is placed at is the current_point_index-th stored
\* point of the selected path
TorchPointIsStored ==
    /\ current_point_index + 1 <= Len(SelectedStoredIndices)
    /\ TorchGlobalIndex = SelectedStoredIndices[current_point_index + 1]

\* C11: whenever the torch is positioned, the point it is placed at is the
\* current_point_index-th, in insertion order, of the stored points of the
\* selected path: it exists in picked_points and carries the selected id.
C11_TorchOnStoredPoint == [][TorchPositioned => TorchPointIsStored']_vars

\* C12: selecting a path sets selected_path_id to it and current_point_index
\* to 0, and a path that becomes the selected one has a stored point.
C12_SelectedPathHasPoints ==
    [][/\ \A k \in 1..MaxPathId :
             OnSimulationPathSelected(k) =>
                 /\ selected_path_id' = simulation_path_dropdown[k]
                 /\ current_point_index' = 0
       /\ (selected_path_id' # selected_path_id /\ selected_path_id' # None) =>
             /\ current_point_index' = 0
             /\ SelectedPathStored' > 0]_vars

\* C13: with a path selected, step-forward at its last stored point and
\* step-backward at its first one leave current_point_index as it is;
\* elsewhere in the path a step moves it by exactly one, onto a stored
\* point (no error is raised).
C13_StepsStopAtBoundaries ==
    [][/\ (OnSimulationFwd /\ selected_path_id # None
             /\ current_point_index = SelectedPathStored - 1) =>
             current_point_index' = current_point_index
       /\ (OnSimulationBack /\ selected_path_id # None
             /\ current_point_index = 0) =>
             current_point_index' = current_point_index
       /\ (OnSimulationFwd /\ selected_path_id # None
             /\ 0 <= current_point_index
             /\ current_point_index < SelectedPathStored - 1) =>
             current_point_index' = current_point_index + 1
       /\ (OnSimulationBack /\ selected_path_id # None
             /\ 0 < current_point_index
             /\ current_point_index <= SelectedPathStored - 1) =>
             current_point_index' = current_point_index - 1]_vars

\* C14: two picks that append a point are never less than 100 ms apart: a
\* pick is accepted only when at least DebounceTicks have passed since the
\* previous accepted pick.
C14_AcceptedPicksApart ==
    [][AcceptedPick => since_accepted_pick >= DebounceTicks]_vars

\* C15: while picking is armed on a displayed mesh, a click that hits the
\* surface is inside the debounce window only if less than 100 ms have
\* passed since the last pick that appended a point; a click that missed
\* the surface does not restart the window.
C15_WindowFromAcceptedPickOnly ==
    (point_picking_mode /\ plotter /\ Debounced(since_last_pick))
        => since_accepted_pick < DebounceTicks

\* C16: while picking is armed on a displayed mesh and no point of the path
\* started by the arming has been appended yet, a click that hits the
\* surface is outside the debounce window, so that the first click that
\* hits the surface appends its point, whatever came before the arming.
C16_FirstHitAfterArmingAppends ==
    (/\ point_picking_mode
     /\ plotter
     /\ current_path_id > 0
     /\ CountPath(point_path_id, current_path_id) = 0)
        => ~Debounced(since_last_pick)

\* the view mode is FREE: neither lock is active
Free == ~top_view_mode /\ ~side_view_mode

\* C17: rotate (CW or CCW) invoked while the view mode is FREE changes
\* neither the camera (position, focal point, up) nor the view mode.
C17_RotateInFreeIsNoOp ==
    [][\A dir \in {-1, 1} :
          (RotateView(dir) /\ Free) => (camera' = camera /\ Free')]_vars

\* C17 witness: the view is FREE on a displayed mesh, the user has dragged
\* the camera, and rotate is invoked and leaves the camera where it is.
C17_Witness ==
    /\ plotter
    /\ Free
    /\ camera = DraggedPose
    /\ ENABLED (RotateViewCw /\ camera' = DraggedPose)

\* four rotations in direction dir of the camera cam, in top lock or in
\* side lock
RotatedFourTimes(cam, top, dir) ==
    RotatedCamera(RotatedCamera(RotatedCamera(RotatedCamera(cam, top, dir),
                                              top, dir), top, dir), top, dir)

\* C18: in a locked view on a displayed mesh, four rotations by 90 degrees
\* in the same direction give back the camera pose before the first one
\* (up vector in top lock, position with focal point and up in side lock).
C18_FourRotationsReturn ==
    (plotter /\ ~Free) =>
        \A dir \in {-1, 1} :
            RotatedFourTimes(camera, top_view_mode, dir) = camera

\* C18 witness: a side lock whose camera has been rotated off the saved
\* side pose.
C18_Witness ==
    /\ plotter
    /\ side_view_mode
    /\ camera # saved_side_camera_state
    /\ ENABLED (RotateViewCw /\ camera' # camera)

\* the largest of the three bounding dimensions of the mesh
LargestDimension ==
    Max(MeshBounds[2] - MeshBounds[1],
        Max(MeshBounds[4] - MeshBounds[3], MeshBounds[6] - MeshBounds[5]))

\* C19: entering a lock on a displayed mesh sets the camera to the pose
\* saved at mesh load: for top, the centre displaced by twice the largest
\* bounding dimension along Z, focal point the centre, up Y; for side, the
\* centre displaced by the same distance along X, focal point the centre,
\* up Z; whatever rotations or dragging came before.
C19_LockEntryIsCanonical ==
    [][/\ (ToggleTopView /\ top_view_mode' /\ plotter) =>
             /\ camera' = saved_camera_state
             /\ camera'.position =
                   <<MeshCenter[1], MeshCenter[2],
                     MeshCenter[3] + 2 * LargestDimension>>
             /\ camera'.focal_point = MeshCenter
             /\ camera'.up = <<0, 1, 0>>
       /\ (ToggleSideView /\ side_view_mode' /\ plotter) =>
             /\ camera' = saved_side_camera_state
             /\ camera'.position =
                   <<MeshCenter[1] + 2 * LargestDimension, MeshCenter[2],
                     MeshCenter[3]>>
             /\ camera'.focal_point = MeshCenter
             /\ camera'.up = <<0, 0, 1>>]_vars

\* C19 witness: the view is FREE with the camera left rotated by an earlier
\* top lock session, and entering the top lock gives the saved top pose.
C19_Witness ==
    /\ plotter
    /\ Free
    /\ camera.position = TopViewState.position
    /\ camera.up = <<1, 0, 0>>
    /\ ENABLED (ToggleTopView /\ camera' = TopViewState)

\* C20: leaving a lock gives the FREE view mode and leaves the camera as it
\* is at that moment, rotations included.
C20_LockExitKeepsCamera ==
    [][/\ (ToggleTopView /\ top_view_mode) => (Free' /\ camera' = camera)
       /\ (ToggleSideView /\ side_view_mode) => (Free' /\ camera' = camera)]_vars

\* C20 witness: a side lock whose camera has been rotated, and leaving the
\* lock keeps that camera in the FREE view.
C20_Witness ==
    /\ plotter
    /\ side_view_mode
    /\ camera # saved_side_camera_state
    /\ ENABLED (ToggleSideView /\ Free' /\ camera' = camera)

\* C21: while a mesh is displayed, free camera interaction is disabled
\* exactly when a lock is active: the interactor style is the frozen one in
\* TOP_LOCKED and SIDE_LOCKED and the trackball one in FREE.
C21_FrozenIffLocked ==
    plotter => (interaction_frozen <=> (top_view_mode \/ side_view_mode))

\* C21 witness: a displayed mesh under a lock, frozen, from which leaving
\* the lock gives the trackball style back.
C21_Witness ==
    /\ plotter
    /\ top_view_mode
    /\ interaction_frozen
    /\ ENABLED (ToggleTopView /\ Free' /\ ~interaction_frozen')

\* C22: the torch offset distance is never negative, after a slider change
\* and after a load alike.
C22_TorchDistanceNonNegative == torch_distance >= 0

\* the files whose 'all_points' load_paths_from_json reads
FilesWithPoints ==
    {file \in ExternalFiles \cup UncheckedFiles \cup {SavedFile} :
        "all_points" \in DOMAIN file}

\* the store holds exactly the records of entries, in their order, with the
\* normal of each record, or (0,0,1) for a record that carries none
StoreHoldsRecords(entries) ==
    /\ Len(picked_points) = Len(entries)
    /\ Len(point_normals) = Len(entries)
    /\ \A i \in 1..Len(entries) :
          /\ picked_points[i] = <<entries[i].x, entries[i].y, entries[i].z>>
          /\ point_normals[i] =
                IF \E field \in {"normal_x", "normal_y", "normal_z"} :
                       field \in DOMAIN entries[i]
                THEN <<entries[i].normal_x, entries[i].normal_y,
                       entries[i].normal_z>>
                ELSE <<0, 0, 1>>

\* C23: a load gives every record of the file a stored point, in file
\* order; a record without normal fields gets the normal (0,0,1) and a
\* record with a normal gets that normal unchanged.
C23_MissingNormalDefaults ==
    [][\A file \in FilesWithPoints :
          LoadStl(file) => StoreHoldsRecords(file.all_points)']_vars

\* C23 witness: the store after loading the file whose first record has no
\* normal and whose second record has the normal (1,0,0).
C23_Witness ==
    /\ plotter
    /\ picked_points = <<<<1, 0, 0>>, <<0, 0, 1>>>>
    /\ point_normals = <<<<0, 0, 1>>, <<1, 0, 0>>>>
    /\ StoreHoldsRecords(FileNoNormals.all_points)

\* the files load_paths_from_json can be given
LoadedFiles == ExternalFiles \cup UncheckedFiles \cup {SavedFile}

\* the 'all_points' records of a file (none when the key is absent)
RecordsOf(file) ==
    IF "all_points" \in DOMAIN file THEN file.all_points ELSE <<>>

\* the largest path_id among the records of a file that has records
MaxPathIdOf(file) ==
    CHOOSE m \in {RecordsOf(file)[i].path_id : i \in 1..Len(RecordsOf(file))} :
        \A i \in 1..Len(RecordsOf(file)) : RecordsOf(file)[i].path_id <= m

Called == args # NoCall

\* the distance from start to end of the last call
CallDistance == TotalDistance(args.start, args.end)

\* the distance of point p from start along the line from start to end, and
\* its signed distance from that line, for the last call
AlongTrack(p) ==
    ((p[1] - args.start[1]) * (args.end[1] - args.start[1])
     + (p[2] - args.start[2]) * (args.end[2] - args.start[2]))
    \div CallDistance

CrossTrack(p) ==
    ((p[2] - args.start[2]) * (args.end[1] - args.start[1])
     - (p[1] - args.start[1]) * (args.end[2] - args.start[2]))
    \div CallDistance

\* the last call was a straight call with start # end and step > 0 (and
\* back and width 0, as the straight type requires)
StraightCall ==
    /\ Called
    /\ args.type = "straight"
    /\ args.start # args.end
    /\ args.step > 0
    /\ args.back = 0
    /\ args.width = 0

\* C25: a straight call with start # end and step > 0 returns a sequence
\* that starts with start and ends with end, whose points lie on the line
\* from start to end, and in which every two consecutive points, except
\* possibly the last two, are exactly step apart along that line.
C25_StraightStartEndStep ==
    StraightCall =>
        /\ raised = NoError
        /\ Len(returned) >= 2
        /\ returned[1] = args.start
        /\ returned[Len(returned)] = args.end
        /\ \A i \in 1..Len(returned) : CrossTrack(returned[i]) = 0
        /\ \A i \in 1..(Len(returned) - 2) :
              AlongTrack(returned[i + 1]) - AlongTrack(returned[i]) = args.step

\* C25 witness: a straight call over a distance of 50 with step 20: two
\* steps of 20 and a last pair 10 apart.
C25_Witness ==
    /\ StraightCall
    /\ CallDistance = 50
    /\ args.step = 20
    /\ Len(returned) = 4
    /\ AlongTrack(returned[3]) = 40
    /\ returned[4] = args.end

\* C26: a straight call over a distance that is k times step returns k + 1
\* points with end among them once; over any other distance it returns
\* floor(distance / step) + 2 points.
C26_StraightPointCount ==
    StraightCall =>
        IF CallDistance % args.step = 0
        THEN /\ Len(returned) = (CallDistance \div args.step) + 1
             /\ Cardinality({i \in 1..Len(returned) :
                                returned[i] = args.end}) = 1
        ELSE Len(returned) = (CallDistance \div args.step) + 2

\* C26 witness: a distance of 50 with step 10 gives 6 points, the last of
\* which is end.
C26_Witness ==
    /\ StraightCall
    /\ CallDistance = 50
    /\ args.step = 10
    /\ Len(returned) = 6
    /\ returned[6] = args.end

\* the last call was a backAndForth call with start # end and 0 < back < step
BackAndForthCall ==
    /\ Called
    /\ args.type = "backAndForth"
    /\ args.start # args.end
    /\ 0 < args.back
    /\ args.back < args.step
    /\ args.width = 0

\* the number of forward/retreat cycles in the sequence returned
Cycles == (Len(returned) - 2) \div 2

\* the along-track distance of the forward point of cycle j
ForwardOfCycle(j) == args.step + (j - 1) * (args.step - args.back)

ArgsPassValidation ==
    /\ args.step > 0
    /\ 0 <= args.back
    /\ args.back < args.step
    /\ args.width >= 0
    /\ args.back = 0 \/ args.type = "backAndForth"
    /\ args.width = 0 \/ args.type = "zigzag"

\* C28: a call with start = end whose arguments pass validation returns the
\* one-element sequence <<start>>, whatever step is.
C28_SamePointGivesStart ==
    (Called /\ args.start = args.end /\ ArgsPassValidation) =>
        /\ raised = NoError
        /\ returned = <<args.start>>

\* C28 witness: a zigzag call with start = end and a width, which returns
\* start alone.
C28_Witness ==
    /\ Called
    /\ args.start = args.end
    /\ ArgsPassValidation
    /\ args.type = "zigzag"
    /\ args.width > 0
    /\ returned = <<args.start>>

\* the parameters of the last call that are set for a pattern that does not
\* take them
MisplacedParameters ==
    (IF args.back # 0 /\ args.type # "backAndForth" THEN {"back"} ELSE {})
    \cup (IF args.width # 0 /\ args.type # "zigzag" THEN {"width"} ELSE {})

\* C29: a call of one of the three patterns with back # 0 outside
\* backAndForth, or with width # 0 outside zigzag, raises a validation error
\* that names such a parameter and returns no points, whatever start, end
\* and step are.
C29_MisplacedParameterRejected ==
    (Called /\ args.type \in PatternTypes /\ MisplacedParameters # {}) =>
        /\ returned = NoResult
        /\ raised # NoError
        /\ raised \subseteq MisplacedParameters

\* C29 witness: a backAndForth call with a width and a back inside its
\* range, rejected with an error that names width.
C29_Witness ==
    /\ Called
    /\ args.type = "backAndForth"
    /\ args.width > 0
    /\ 0 < args.back
    /\ args.back < args.step
    /\ raised = {"width"}
    /\ returned = NoResult

\* C30: a call that breaks a range rule raises a validation error that
\* names the parameter out of range and returns no points: step for
\* step <= 0, back for back < 0 or back >= step, width for width < 0.
C30_RangeErrorNamesParameter ==
    Called =>
        /\ args.step <= 0 => ("step" \in raised /\ returned = NoResult)
        /\ (args.back < 0 \/ args.back >= args.step) =>
              ("back" \in raised /\ returned = NoResult)
        /\ args.width < 0 => ("width" \in raised /\ returned = NoResult)

\* the last call was a zigzag call with start # end whose arguments pass
\* validation
ZigzagCall ==
    /\ Called
    /\ args.type = "zigzag"
    /\ args.start # args.end
    /\ args.step > 0
    /\ args.back = 0
    /\ args.width >= 0

\* C31: for a zigzag call with start # end, the first point of the sequence
\* returned is start displaced by width / 2 perpendicular to the direction
\* of travel.
C31_ZigzagFirstPointDisplaced ==
    ZigzagCall =>
        /\ raised = NoError
        /\ AlongTrack(returned[1]) = 0
        /\ 2 * Abs(CrossTrack(returned[1])) = args.width

\* the offset points of a zigzag result: the points after the leading start
OffsetPoints == SubSeq(returned, 2, Len(returned))

\* the side of the j-th offset point: -1 (left) first, then alternating
SideOfOffset(j) == IF j % 2 = 1 THEN -1 ELSE 1

\* C32: the sequence a zigzag call returns is start followed by the offset
\* points.  The offset points lie on alternating sides of the line from
\* start to end, each width / 2 away from it; each one but the last is step
\* further along the line than the one before; the last is end displaced by
\* width / 2 to the side opposite the point before it, emitted in place of
\* the first advance that reaches or passes the total distance.
C32_ZigzagAlternates ==
    ZigzagCall =>
        /\ raised = NoError
        /\ returned[1] = args.start
        /\ Len(OffsetPoints) >= 2
        /\ \A j \in 1..Len(OffsetPoints) :
              2 * CrossTrack(OffsetPoints[j]) = SideOfOffset(j) * args.width
        /\ \A j \in 1..(Len(OffsetPoints) - 1) :
              /\ AlongTrack(OffsetPoints[j]) = (j - 1) * args.step
              /\ (j - 1) * args.step < CallDistance
        /\ AlongTrack(OffsetPoints[Len(OffsetPoints)]) = CallDistance
        /\ (Len(OffsetPoints) - 1) * args.step >= CallDistance

\* C32 witness: distance 50, step 20, width 10: offset points at 0, 20 and
\* 40 on the left, right and left, then end displaced to the right.
C32_Witness ==
    /\ ZigzagCall
    /\ CallDistance = 50
    /\ args.step = 20
    /\ args.width = 10
    /\ Len(OffsetPoints) = 4
    /\ CrossTrack(OffsetPoints[3]) = -5
    /\ AlongTrack(OffsetPoints[3]) = 40
    /\ CrossTrack(OffsetPoints[4]) = 5
    /\ AlongTrack(OffsetPoints[4]) = 50

\* C33: the result of calculate_path depends only on its arguments.  A call
\* with the arguments of an earlier call whose list the caller kept returns
\* a sequence equal to that list, whatever calls were made in between, and
\* the kept list is still what it was when it was returned.
C33_ResultDependsOnArgsOnly ==
    kept_args # NoCall =>
        /\ kept_list = kept_original
        /\ args = kept_args => (raised = NoError /\ returned = kept_original)

\* C33 witness: the caller holds the list of an earlier call, a failed call
\* was made since, and the same call is then made again and returns a new
\* list equal to the one kept.
C33_Witness ==
    /\ kept_args # NoCall
    /\ ~kept_is_points
    /\ Len(kept_original) > 2
    /\ raised # NoError
    /\ ENABLED (/\ CalculatePath(kept_args.start, kept_args.end,
                                 kept_args.step, kept_args.type,
                                 kept_args.back, kept_args.width)
                /\ returned' = kept_original)

\* C34: a clear operation (clear-all or remove-last) that leaves the point
\* store empty while simulation mode is on turns simulation mode off:
\* afterwards simulation_mode is false and no path is selected.
C34_ClearToEmptyEndsSimulation ==
    [][((\E all \in BOOLEAN : ClearPoints(all))
        /\ simulation_mode
        /\ picked_points' = <<>>)
       => (~simulation_mode' /\ selected_path_id' = None)]_vars

\* C35: a call with a type other than 'straight', 'backAndForth' and
\* 'zigzag' raises a validation error, for every start and end, start = end
\* included, and returns no point sequence.
C35_UnknownTypeRejected ==
    (Called /\ args.type \notin PatternTypes) =>
        /\ raised # NoError
        /\ returned = NoResult

\* C36: in every reachable state the three per-point sequences have the
\* same length, so that the i-th position, the i-th path id and the i-th
\* normal describe the same stored point.
C36_ParallelListsAligned ==
    /\ Len(point_path_id) = Len(picked_points)
    /\ Len(point_normals) = Len(picked_points)

\* update_path: the segments drawn, as pairs of indices of stored points:
\* "for i in range(len(points) - 1): if self.point_path_id[i] ==
\* self.point_path_id[i + 1]: lines.append([points[i], points[i + 1]])"
PathLines ==
    {<<i, i + 1>> : i \in {n \in 1..(Len(picked_points) - 1) :
                              point_path_id[n] = point_path_id[n + 1]}}

\* the pairs of successive points of each path, in insertion order
SuccessivePointsOfPaths ==
    UNION {{<<PathPointIndices(point_path_id, k)[j],
              PathPointIndices(point_path_id, k)[j + 1]>> :
               j \in 1..(CountPath(point_path_id, k) - 1)} :
           k \in {point_path_id[i] : i \in 1..Len(point_path_id)}}

\* C37: in a store built from empty by start-path, stop-path and accepted
\* picks, the path ids do not decrease along the stored points (and none is
\* above the counter), the points of each path form one contiguous block,
\* and the segments of the path polyline are exactly the pairs of
\* successive points of each path.
C37_PathsAreContiguousBlocks ==
    /\ Len(point_path_id) = Len(picked_points)
    /\ \A i \in 1..Len(point_path_id) :
          /\ 1 <= point_path_id[i]
          /\ point_path_id[i] <= current_path_id
    /\ \A i, j \in 1..Len(point_path_id) :
          i < j => point_path_id[i] <= point_path_id[j]
    /\ \A i, j, k \in 1..Len(point_path_id) :
          (i < k /\ k < j /\ point_path_id[i] = point_path_id[j])
              => point_path_id[k] = point_path_id[i]
    /\ PathLines = SuccessivePointsOfPaths

\* C37 witness: two stored points of two different paths, the second path
\* still open, with no segment between them.
C37_Witness ==
    /\ point_picking_mode
    /\ Len(picked_points) = 2
    /\ point_path_id = <<1, 2>>
    /\ PathLines = {}


\* a call of the float machine has been started
FloatCalled == fl_args # NoCall

\* the iteration taken leaves the loop running
LoopContinues == LoopIterate /\ fl_pc' = "loop"

\* C38: for every input that passes validation the backAndForth loop and the
\* zigzag loop reach the end point after finitely many iterations, and the
\* distance along the line (current_distance) strictly increases on every
\* iteration.
C38_LoopsTerminate ==
    /\ [][LoopContinues => fl_current' > fl_current]_vars
    /\ (fl_pc = "loop") ~> (fl_pc = "done")

\* no further point fits the list kept of self.points
ListCut == Len(fl_points) >= MaxEmitted

\* C39: backAndForth with back = 0 returns the same sequence of points as
\* straight with the same start, end and step.
C39_BackZeroIsStraight ==
    (/\ FloatCalled
     /\ fl_pc = "done"
     /\ fl_args.type = "backAndForth"
     /\ fl_args.back = 0)
        => fl_points = FloatStraight(fl_args.total, fl_args.step)

\* the backAndForth call in progress or finished, and its cycles: with
\* back > 0 the points after start come in pairs (forward, retreat); the
\* end point, once appended, is the last element
BackAndForthRun ==
    /\ FloatCalled
    /\ fl_args.type = "backAndForth"
    /\ fl_args.back > 0
    /\ ~ListCut

RunCycles ==
    (Len(fl_points) - (IF fl_pc = "done" THEN 2 ELSE 1)) \div 2

ForwardOfRun(j) == fl_points[2 * j]

RetreatOfRun(j) == fl_points[2 * j + 1]

\* C40: every point emitted by backAndForth lies within [0, total distance]
\* along the line; the forward points strictly advance from one cycle to
\* the next, and every retreat point is strictly ahead of start and of the
\* retreat point of the cycle before.
C40_BackAndForthAdvances ==
    BackAndForthRun =>
        /\ \A i \in 1..Len(fl_points) :
               fl_points[i] >= 0 /\ fl_points[i] <= fl_args.total
        /\ \A j \in 1..RunCycles :
               /\ RetreatOfRun(j) > 0
               /\ j > 1 => /\ ForwardOfRun(j) > ForwardOfRun(j - 1)
                           /\ RetreatOfRun(j) > RetreatOfRun(j - 1)

====
